---- MODULE Spec2Model ----
(***************************************************************************)
(* Model of neomodel/relationship_manager.py: the RelationshipManager      *)
(* mutation operations over a property graph, and the edge-class registry  *)
(* written by RelationshipDefinition.__init__.                             *)
(*                                                                         *)
(* The graph is a bag of edges (parallel edges, also identical ones, are   *)
(* possible in the database).  A Cypher query is a single transaction: one *)
(* query is one atomic step.  Operations that issue two queries            *)
(* (reconnect, replace) take two steps.                                    *)
(***************************************************************************)
EXTENDS Integers, Sequences, FiniteSets, Bags, TLC

-----------------------------------------------------------------------------
(* Bounds *)

\* largest number of edges in the graph
MaxEdges == 2
\* largest number of constructions one thread of SpecRegistryConc performs
MaxConstructs == 2

-----------------------------------------------------------------------------
(* Node classes (StructuredNode subclasses) *)

NodeClasses == {"Person", "Dog", "Wolf", "Cat"}

\* cls.__bases__ restricted to node classes
node_bases(c) ==
    IF c = "Wolf" THEN {"Dog"} ELSE {}

\* issubclass(c, d) for node classes (the hierarchy is two levels deep)
node_issubclass(c, d) == c = d \/ d \in node_bases(c)

\* cls.__label__: the class name unless the class overrides it
\* (Wolf declares __label__ = "Canine")
class_label(c) == IF c = "Wolf" THEN "Canine" ELSE c

\* cls.__name__
class_name(c) == c

\* labels a persisted node of class c carries in the graph
inherited_labels(c) == {class_label(k) : k \in {c} \cup node_bases(c)}

-----------------------------------------------------------------------------
(* Node instances *)

\* a: persisted Person, x: deleted Person, z: unsaved Person;
\* b: Dog, w: Wolf, k: Cat, all persisted; u: unsaved Dog
Sources == {"a", "x", "z"}
Targets == {"b", "w", "k", "u"}
Objs == Sources \cup Targets

obj_class(o) ==
    CASE o \in Sources -> "Person"
      [] o = "b" -> "Dog"
      [] o = "w" -> "Wolf"
      [] o = "k" -> "Cat"
      [] OTHER   -> "Dog"

\* hasattr(o, 'id')
has_id(o) == o \notin {"z", "u"}

\* o.deleted
is_deleted(o) == o = "x"

\* the nodes present in the graph; a node's identity is its name
GraphNodes == {o \in Objs : has_id(o) /\ ~is_deleted(o)}

\* labels of a graph node
node_labels(n) == inherited_labels(obj_class(n))

\* the application-level unique key of a graph node ("none" is the key of no node)
node_uuid(n) == n
UuidKeys == {"b", "w", "k", "none"}

-----------------------------------------------------------------------------
(* Relationship definitions and edge properties *)

OUTGOING == "OUTGOING"
INCOMING == "INCOMING"
EITHER == "EITHER"
Directions == {OUTGOING, INCOMING, EITHER}

\* the properties the edge-property class declares; 0 stands for None / absent
PropKeys == {"since", "note"}
NoValue == 0
PropValues == {1}
PropMaps == [PropKeys -> PropValues \cup {NoValue}]
NoProps == [p \in PropKeys |-> NoValue]

\* keys present on an edge (Neo4j stores no null-valued property)
PropertyKeys(props) == {p \in PropKeys : props[p] # NoValue}

\* self.definition of a manager
Definitions ==
    [relation_type : {"OWNS"}, direction : Directions, model : BOOLEAN, node_class : {"Dog"}]

Edge(s, e, t, props) == [start |-> s, end |-> e, type |-> t, props |-> props]

-----------------------------------------------------------------------------
(* Graph patterns and queries *)

\* _rel_helper(lhs=us, rhs=them, relation_type, direction): does edge e match
\* the pattern (us)-[r:type]->(them), (us)<-[r:type]-(them) or (us)-[r:type]-(them)
rel_helper(e, d, us, them) ==
    /\ e.type = d.relation_type
    /\ CASE d.direction = OUTGOING -> e.start = us /\ e.end = them
         [] d.direction = INCOMING -> e.start = them /\ e.end = us
         [] OTHER -> \/ e.start = us /\ e.end = them
                     \/ e.start = them /\ e.end = us

\* the edges of bag E between us and them that match the definition's pattern
RelsBetween(E, d, us, them) == {e \in BagToSet(E) : rel_helper(e, d, us, them)}

\* the edges of bag E of the definition's type and direction at us, to any node
RelsOf(E, d, us) == {e \in BagToSet(E) : \E n \in GraphNodes : rel_helper(e, d, us, n)}

\* E without every copy of the edges in S (DELETE r)
DeleteRels(E, S) == [e \in (DOMAIN E) \ S |-> E[e]]

\* the edges a MERGE of _rel_merge_helper's pattern may create: the pattern's
\* direction, and either direction for an undirected pattern
MergeCreates(d, us, them, props) ==
    CASE d.direction = OUTGOING -> {Edge(us, them, d.relation_type, props)}
      [] d.direction = INCOMING -> {Edge(them, us, d.relation_type, props)}
      [] OTHER -> {Edge(us, them, d.relation_type, props),
                   Edge(them, us, d.relation_type, props)}

\* MERGE (us)-[r:type {non-null rp}]-(them) ON CREATE SET / ON MATCH SET the
\* null-valued rp: the set of graphs the clause may leave for one (us, them) row.
\* rp = None (no edge-property class) merges on the bare pattern.
rel_merge_helper(E, d, us, them, rp) ==
    LET matched == {e \in RelsBetween(E, d, us, them) :
                        \A p \in PropertyKeys(rp) : e.props[p] = rp[p]}
        OnMatch(e) == IF d.model /\ e \in matched
                        THEN [e EXCEPT !.props = rp]
                        ELSE e
    IN  IF matched # {}
          THEN {BagOfAll(OnMatch, E)}
          ELSE {E (+) SetToBag({n}) : n \in MergeCreates(d, us, them, rp)}

\* the MERGE clause over every matched target node, one row each
RECURSIVE MergeRows(_, _, _, _, _)
MergeRows(E, d, us, thems, rp) ==
    IF thems = {} THEN {E}
    ELSE LET t == CHOOSE n \in thems : TRUE
         IN  UNION {MergeRows(E2, d, us, thems \ {t}, rp) :
                        E2 \in rel_merge_helper(E, d, us, t, rp)}

\* source.cypher(): the node's own pre-action check runs before the query is sent
\* (spec 4.3: the source must be persisted and not deleted)
pre_action_check(s) == has_id(s) /\ ~is_deleted(s)

\* _check_node without the test that the node is saved
check_node_class_only(d, o) == node_issubclass(obj_class(o), d.node_class)

\* RelationshipManager._check_node
check_node(d, o) == node_issubclass(obj_class(o), d.node_class) /\ has_id(o)

\* Traversal.__contains__ behind is_connected: an edge of the definition's
\* pattern joins the source to the node, matched with the endpoint class's label
is_connected(E, d, s, n) ==
    /\ class_label(d.node_class) \in node_labels(n)
    /\ RelsBetween(E, d, s, n) # {}

-----------------------------------------------------------------------------
(* State *)

VARIABLES
    definition, \* self.definition of the manager
    edges,      \* the graph's edges: a bag of Edge records
    last,       \* the manager operation called last, and how it returned
    call,       \* the manager operation in progress between two queries
    registry,   \* db._NODE_CLASS_REGISTRY: relation type -> edge-property class
    rthread,    \* the threads constructing RelationshipDefinitions
    raw_class,  \* RelationshipDefinition._raw_class: a class, or a name to look up
    modules     \* sys.modules: module name -> attribute name -> node class

vars == <<definition, edges, last, call, registry, rthread, raw_class, modules>>

Idle == [op |-> "idle"]

\* what an operation leaves: how it ended, the queries it sent, the graph
Outcome(result, queries, E) == [result |-> result, queries |-> queries, edges |-> E]

\* an operation that has not returned yet
Running(op, s, args, queries) ==
    [op |-> op, src |-> s, args |-> args, keys |-> {},
     result |-> "running", queries |-> queries]

Returned(op, s, args, keys, o) ==
    [op |-> op, src |-> s, args |-> args, keys |-> keys,
     result |-> o.result, queries |-> o.queries]

-----------------------------------------------------------------------------
(* RelationshipManager operations: the outcomes of one call *)

\* the target rows of connect's MATCH (them:dest_label), (us:source_label)
\* WHERE id(them)=$them and id(us)=$self
connect_match(s, n) ==
    IF /\ class_name(obj_class(n)) \in node_labels(n)
       /\ class_name(obj_class(s)) \in node_labels(s)
      THEN {n} ELSE {}

\* the target rows of bulk_connect's UNWIND $uuids MATCH (them:label), (us:source_label)
\* WHERE them.uuid=uuid and id(us)=$self
bulk_connect_match(s, keys, label) ==
    IF class_name(obj_class(s)) \in node_labels(s)
      THEN {n \in GraphNodes : label \in node_labels(n) /\ node_uuid(n) \in keys}
      ELSE {}

\* connect_helper without the refusal of properties that have no model
connect_helper_no_refusal(E, d, s, thems, properties) ==
    {Outcome(IF d.model /\ thems = {} THEN "IndexError" ELSE "ok", <<"write">>, E2) :
         E2 \in MergeRows(E, d, s, thems, IF d.model THEN properties ELSE NoProps)}

\* connect_helper: thems are the rows the leading MATCH / UNWIND yields.
\* Properties without an edge-property class raise before the query is built.
\* Without a class the query's result is not read; with one, [0][0][0] of a
\* result without rows raises IndexError after the query has run.
connect_helper(E, d, s, thems, properties) ==
    IF ~d.model /\ PropertyKeys(properties) # {}
      THEN {Outcome("NotImplementedError", <<>>, E)}
    ELSE {Outcome(IF d.model /\ thems = {} THEN "IndexError" ELSE "ok", <<"write">>, E2) :
              E2 \in MergeRows(E, d, s, thems, IF d.model THEN properties ELSE NoProps)}

\* connect: @check_source, _check_node, then the query of connect_helper
connect_outcomes(E, d, s, node, properties) ==
    IF ~pre_action_check(s) THEN {Outcome("PreActionCheck", <<>>, E)}
    ELSE IF ~check_node(d, node) THEN {Outcome("ValueError", <<>>, E)}
    ELSE connect_helper(E, d, s, connect_match(s, node), properties)

\* bulk_disconnect carries no @check_source: an empty key list returns at once,
\* a non-empty one reaches source.cypher(), which checks the source itself.
\* The query matches b by uuid alone, whatever its label.
bulk_disconnect_outcomes(E, d, s, nodes) ==
    IF nodes = {} THEN {Outcome("ok", <<>>, E)}
    ELSE IF ~pre_action_check(s) THEN {Outcome("PreActionCheck", <<>>, E)}
    ELSE {Outcome("ok", <<"write">>,
              DeleteRels(E, UNION {RelsBetween(E, d, s, n) :
                                      n \in {m \in GraphNodes : node_uuid(m) \in nodes}}))}

\* bulk_connect without the test of the key list
bulk_connect_always_queries(E, d, s, nodes, label, properties) ==
    IF ~pre_action_check(s) THEN {Outcome("PreActionCheck", <<>>, E)}
    ELSE connect_helper(E, d, s, bulk_connect_match(s, nodes, label), properties)

\* bulk_connect: @check_source; an empty key list returns without a query
bulk_connect_outcomes(E, d, s, nodes, label, properties) ==
    IF ~pre_action_check(s) THEN {Outcome("PreActionCheck", <<>>, E)}
    ELSE IF nodes = {} THEN {Outcome("ok", <<>>, E)}
    ELSE connect_helper(E, d, s, bulk_connect_match(s, nodes, label), properties)

\* disconnect: @check_source, then node.id (AttributeError on an unsaved node);
\* no _check_node, no label in the query
disconnect_outcomes(E, d, s, node) ==
    IF ~pre_action_check(s) THEN {Outcome("PreActionCheck", <<>>, E)}
    ELSE IF ~has_id(node) THEN {Outcome("AttributeError", <<>>, E)}
    ELSE {Outcome("ok", <<"write">>, DeleteRels(E, RelsBetween(E, d, s, node)))}

\* disconnect_all without the restriction of the pattern to the source
disconnect_all_any_source(E, d, s) ==
    IF ~pre_action_check(s) THEN {Outcome("PreActionCheck", <<>>, E)}
    ELSE {Outcome("ok", <<"write">>,
              DeleteRels(E, UNION {RelsBetween(E, d, m, n) : m \in GraphNodes,
                  n \in {m \in GraphNodes : class_label(d.node_class) \in node_labels(m)}}))}

\* disconnect_all matching the nodes of exactly the endpoint class
disconnect_all_exact_class(E, d, s) ==
    IF ~pre_action_check(s) THEN {Outcome("PreActionCheck", <<>>, E)}
    ELSE {Outcome("ok", <<"write">>,
              DeleteRels(E, UNION {RelsBetween(E, d, s, n) :
                  n \in {m \in GraphNodes : obj_class(m) = d.node_class}}))}

\* disconnect_all: the pattern's right-hand side is b:node_class.__label__
disconnect_all_outcomes(E, d, s) ==
    IF ~pre_action_check(s) THEN {Outcome("PreActionCheck", <<>>, E)}
    ELSE {Outcome("ok", <<"write">>,
              DeleteRels(E, UNION {RelsBetween(E, d, s, n) :
                  n \in {m \in GraphNodes : class_label(d.node_class) \in node_labels(m)}}))}

\* reconnect without the comparison of the two identities
reconnect_checks_no_identity(E, d, s, old_node, new_node) ==
    IF ~pre_action_check(s) THEN Outcome("PreActionCheck", <<>>, E)
    ELSE IF ~check_node(d, old_node) \/ ~check_node(d, new_node)
      THEN Outcome("ValueError", <<>>, E)
    ELSE IF RelsBetween(E, d, s, old_node) = {} THEN Outcome("NotConnected", <<"read">>, E)
    ELSE Outcome("running", <<"read">>, E)

\* reconnect returning instead of raising when the read query finds no edge
reconnect_checks_no_raise(E, d, s, old_node, new_node) ==
    IF ~pre_action_check(s) THEN Outcome("PreActionCheck", <<>>, E)
    ELSE IF ~check_node(d, old_node) \/ ~check_node(d, new_node)
      THEN Outcome("ValueError", <<>>, E)
    ELSE IF old_node = new_node THEN Outcome("ok", <<>>, E)
    ELSE IF RelsBetween(E, d, s, old_node) = {} THEN Outcome("ok", <<"read">>, E)
    ELSE Outcome("running", <<"read">>, E)

\* reconnect up to and including its read query: how it ends there, or
\* "running" when it goes on to the write query
reconnect_checks(E, d, s, old_node, new_node) ==
    IF ~pre_action_check(s) THEN Outcome("PreActionCheck", <<>>, E)
    ELSE IF ~check_node(d, old_node) \/ ~check_node(d, new_node)
      THEN Outcome("ValueError", <<>>, E)
    ELSE IF old_node = new_node THEN Outcome("ok", <<>>, E)
    ELSE IF RelsBetween(E, d, s, old_node) = {} THEN Outcome("NotConnected", <<"read">>, E)
    ELSE Outcome("running", <<"read">>, E)

\* reconnect's second query deleting the old edges without the MERGE
reconnect_write_no_merge(E, d, s, old, new, existing_properties) ==
    {DeleteRels(E, RelsBetween(E, d, s, old))}

\* reconnect's second query: MATCH the old edges, MERGE the bare pattern to new,
\* SET r2.p = r.p for the keys read before (the last row's values stay), DELETE r
reconnect_write(E, d, s, old, new, existing_properties) ==
    LET olds == RelsBetween(E, d, s, old)
        merged == IF RelsBetween(E, d, s, new) # {}
                    THEN {E}
                    ELSE {E (+) SetToBag({n}) : n \in MergeCreates(d, s, new, NoProps)}
        Copy(r, e) == IF rel_helper(e, d, s, new)
                        THEN [e EXCEPT !.props =
                                 [p \in PropKeys |-> IF p \in existing_properties
                                                       THEN r.props[p] ELSE e.props[p]]]
                        ELSE e
    IN  IF olds = {} THEN {E}
        ELSE {DeleteRels(BagOfAll(LAMBDA e : Copy(r, e), M), olds) :
                  M \in merged, r \in olds}

-----------------------------------------------------------------------------
(* Actions: one per manager operation; reconnect and replace take two steps *)

Fits(E) == BagCardinality(E) <= MaxEdges

Finish(op, s, args, keys, o) ==
    /\ Fits(o.edges)
    /\ edges' = o.edges
    /\ last' = Returned(op, s, args, keys, o)
    /\ call' = Idle
    /\ UNCHANGED <<definition, registry, rthread, raw_class, modules>>

connect(s, node, properties) ==
    /\ call = Idle
    /\ \E o \in connect_outcomes(edges, definition, s, node, properties) :
          Finish("connect", s, <<node>>, {}, o)

bulk_disconnect(s, nodes) ==
    /\ call = Idle
    /\ \E o \in bulk_disconnect_outcomes(edges, definition, s, nodes) :
          Finish("bulk_disconnect", s, <<>>, nodes, o)

bulk_connect(s, nodes, label, properties) ==
    /\ call = Idle
    /\ \E o \in bulk_connect_outcomes(edges, definition, s, nodes, label, properties) :
          Finish("bulk_connect", s, <<>>, nodes, o)

disconnect(s, node) ==
    /\ call = Idle
    /\ \E o \in disconnect_outcomes(edges, definition, s, node) :
          Finish("disconnect", s, <<node>>, {}, o)

disconnect_all(s) ==
    /\ call = Idle
    /\ \E o \in disconnect_all_outcomes(edges, definition, s) :
          Finish("disconnect_all", s, <<>>, {}, o)

\* replace, up to and including its disconnect_all()
replace(s, node, properties) ==
    /\ call = Idle
    /\ IF ~pre_action_check(s)
         THEN Finish("replace", s, <<node>>, {}, Outcome("PreActionCheck", <<>>, edges))
         ELSE /\ \E o \in disconnect_all_outcomes(edges, definition, s) : edges' = o.edges
              /\ call' = [op |-> "replace", src |-> s, node |-> node, other |-> node,
                          properties |-> properties, existing_properties |-> {}]
              /\ last' = Running("replace", s, <<node>>, <<"write">>)
              /\ UNCHANGED <<definition, registry, rthread, raw_class, modules>>

\* replace's connect(node, properties)
replace_connect ==
    /\ call # Idle
    /\ call.op = "replace"
    /\ \E o \in connect_outcomes(edges, definition, call.src, call.node, call.properties) :
          Finish("replace", call.src, <<call.node>>, {},
                 Outcome(o.result, <<"write">> \o o.queries, o.edges))

\* reconnect, up to and including its read query; existing_properties are the
\* keys of the first row the read query returns
reconnect(s, old_node, new_node) ==
    /\ call = Idle
    /\ LET o == reconnect_checks(edges, definition, s, old_node, new_node)
       IN  IF o.result # "running"
             THEN Finish("reconnect", s, <<old_node, new_node>>, {}, o)
             ELSE /\ \E r \in RelsBetween(edges, definition, s, old_node) :
                        call' = [op |-> "reconnect", src |-> s, node |-> old_node,
                                 other |-> new_node, properties |-> NoProps,
                                 existing_properties |-> PropertyKeys(r.props)]
                  /\ last' = Running("reconnect", s, <<old_node, new_node>>, o.queries)
                  /\ UNCHANGED <<definition, edges, registry, rthread, raw_class, modules>>

\* reconnect's write query
reconnect_query ==
    /\ call # Idle
    /\ call.op = "reconnect"
    /\ \E E2 \in reconnect_write(edges, definition, call.src, call.node, call.other,
                                 call.existing_properties) :
          Finish("reconnect", call.src, <<call.node, call.other>>, {},
                 Outcome("ok", <<"read", "write">>, E2))

-----------------------------------------------------------------------------
(* Spec: the manager of one relationship attribute of the persisted source a, *)
(* its operations called one after another                                   *)

KeySets == {{}, {"b"}, {"w"}, {"b", "w"}, {"none"}}
Labels == {"Dog", "Canine"}
NotCalled == [op |-> "none", src |-> "a", args |-> <<>>, keys |-> {},
              result |-> "ok", queries |-> <<>>]
Unbound == "unbound"
RelTypes == {"OWNS", "LIKES"}

ManagerInit ==
    /\ definition \in Definitions
    /\ edges = EmptyBag
    /\ last = NotCalled
    /\ call = Idle

RegistryIdle ==
    /\ registry = [t \in RelTypes |-> Unbound]
    /\ rthread = <<>>

\* the module that declares the relationship, and the modules holding node classes
module_name == "pets"
ModuleNames == {"pets", "kennel"}
Undefined == "undefined"

\* the endpoint class given as a class; every module binds the name Dog to class Dog
LookupIdle ==
    /\ raw_class = [cls |-> "Dog"]
    /\ modules = [m \in ModuleNames |-> [n \in {"Dog"} |-> "Dog"]]

Init == ManagerInit /\ RegistryIdle /\ LookupIdle

Connect == \E n \in Targets, p \in PropMaps : connect("a", n, p)
BulkDisconnect == \E K \in KeySets : bulk_disconnect("a", K)
BulkConnect == \E K \in KeySets, l \in Labels, p \in PropMaps : bulk_connect("a", K, l, p)
Disconnect == \E n \in Targets : disconnect("a", n)
DisconnectAll == disconnect_all("a")
Replace == \E n \in Targets, p \in PropMaps : replace("a", n, p)
Reconnect == \E o \in Targets, n \in Targets : reconnect("a", o, n)

Next ==
    \/ Connect
    \/ BulkDisconnect
    \/ BulkConnect
    \/ Disconnect
    \/ DisconnectAll
    \/ Replace
    \/ replace_connect
    \/ Reconnect
    \/ reconnect_query

Spec == Init /\ [][Next]_vars

-----------------------------------------------------------------------------
(* Claims about the manager, checked under Spec *)

\* the node arguments of the operation called last
Arg(i) == last.args[i]

\* C1: after connect(b) returns, is_connected(b) is true; after disconnect(b)
\* returns, is_connected(b) is false.
C1_ConnectThenConnected ==
    /\ (last.op = "connect" /\ last.result = "ok")
          => is_connected(edges, definition, last.src, Arg(1))
    /\ (last.op = "disconnect" /\ last.result = "ok")
          => ~is_connected(edges, definition, last.src, Arg(1))

\* C2: when reconnect(old, new) returns, an edge to new carries every property
\* of the old edge with the old edge's value, no edge to old remains, and the
\* keys the old edge does not have are left as they were on the edges to new.
C2_ReconnectPreservesProperties ==
    [][reconnect_query =>
        LET d == definition
            olds == RelsBetween(edges, d, call.src, call.node)
            news == RelsBetween(edges, d, call.src, call.other)
            before == IF news = {}
                        THEN MergeCreates(d, call.src, call.other, NoProps)
                        ELSE news
            after == RelsBetween(edges', d, call.src, call.other)
        IN  olds # {} =>
              /\ RelsBetween(edges', d, call.src, call.node) = {}
              /\ \E r \in olds :
                    /\ \E e \in after :
                          \A p \in PropertyKeys(r.props) : e.props[p] = r.props[p]
                    /\ \A e \in after : \E e0 \in before :
                          \A p \in PropKeys \ PropertyKeys(r.props) :
                              e.props[p] = e0.props[p]
      ]_vars

\* C3: between reconnect's read query and its write query, and after the write
\* query, the source has at least one edge of the relationship.
C3_NoZeroEdgeWindow ==
    /\ (call # Idle /\ call.op = "reconnect")
          => RelsOf(edges, definition, call.src) # {}
    /\ (last.op = "reconnect" /\ last.queries = <<"read", "write">>)
          => RelsOf(edges, definition, last.src) # {}

C3_Witness ==
    /\ last.op = "reconnect" /\ last.result = "ok"
    /\ last.queries = <<"read", "write">>
    /\ RelsBetween(edges, definition, last.src, Arg(1)) = {}
    /\ RelsBetween(edges, definition, last.src, Arg(2)) # {}

\* C4: reconnect(old, new) of two valid nodes of different identity, with no
\* edge to old, ends with NotConnected after the read query alone and leaves
\* the graph as it was.
C4_ReconnectNotConnected ==
    [][(/\ call = Idle
        /\ last'.op = "reconnect"
        /\ pre_action_check(last'.src)
        /\ check_node(definition, last'.args[1])
        /\ check_node(definition, last'.args[2])
        /\ last'.args[1] # last'.args[2]
        /\ RelsBetween(edges, definition, last'.src, last'.args[1]) = {})
       => (/\ last'.result = "NotConnected"
           /\ last'.queries = <<"read">>
           /\ call' = Idle
           /\ edges' = edges)
      ]_vars

C4_Witness ==
    /\ last.op = "reconnect" /\ last.result = "NotConnected"
    /\ last.queries = <<"read">>
    /\ edges # EmptyBag
    /\ RelsBetween(edges, definition, last.src, Arg(1)) = {}

\* C5: reconnect(old, new) with old and new of the same identity sends no query
\* and leaves the graph as it was, with or without an edge to old.
C5_ReconnectSameIdentity ==
    [][(/\ call = Idle
        /\ last'.op = "reconnect"
        /\ last'.args[1] = last'.args[2])
       => (/\ call' = Idle
           /\ last'.result # "running"
           /\ last'.queries = <<>>
           /\ edges' = edges)
      ]_vars

C5_Witness ==
    /\ last.op = "reconnect" /\ last.result = "ok" /\ last.queries = <<>>
    /\ Arg(1) = Arg(2)
    /\ RelsBetween(edges, definition, last.src, Arg(1)) # {}

\* C9: bulk_connect and bulk_disconnect with an empty key list, on a persisted
\* source, return without a query and leave the graph as it was, every time.
C9_BulkEmptyNoOp ==
    [][(/\ last'.op \in {"bulk_connect", "bulk_disconnect"}
        /\ call = Idle
        /\ last'.keys = {}
        /\ pre_action_check(last'.src))
       => (/\ last'.result = "ok"
           /\ last'.queries = <<>>
           /\ edges' = edges)
      ]_vars

C9_Witness ==
    /\ last.op = "bulk_connect" /\ last.keys = {} /\ last.result = "ok"
    /\ edges # EmptyBag

\* C10: connect(node, properties) with properties, on a relationship that has no
\* edge-property class, fails before any query and leaves the graph as it was.
C10_PropertiesNeedModel ==
    [][\A n \in Targets, p \in PropMaps :
          (/\ ~definition.model
           /\ PropertyKeys(p) # {}
           /\ connect("a", n, p))
          => (/\ last'.result = IF check_node(definition, n)
                                  THEN "NotImplementedError" ELSE "ValueError"
              /\ last'.queries = <<>>
              /\ edges' = edges)
      ]_vars

C10_Witness ==
    /\ last.op = "connect" /\ last.result = "NotImplementedError"
    /\ last.queries = <<>>
    /\ ~definition.model
    /\ edges # EmptyBag

\* C11: connect(node) with a node that is not an instance of the endpoint class,
\* or is unsaved, fails with a validation error before any query and leaves the
\* graph as it was.
C11_ConnectChecksNode ==
    [][(/\ call = Idle
        /\ last'.op = "connect"
        /\ pre_action_check(last'.src)
        /\ \/ ~node_issubclass(obj_class(last'.args[1]), definition.node_class)
           \/ ~has_id(last'.args[1]))
       => (/\ last'.result = "ValueError"
           /\ last'.queries = <<>>
           /\ edges' = edges)
      ]_vars

C11_Witness ==
    /\ last.op = "connect" /\ last.result = "ValueError" /\ last.queries = <<>>
    /\ Arg(1) \in {"k", "u"}
    /\ edges # EmptyBag

\* the nodes that carry the endpoint class's label
EndpointNodes(d) == {n \in GraphNodes : class_label(d.node_class) \in node_labels(n)}

\* C12: when replace's connect fails after its disconnect_all has run, replace
\* ends with that error and the source has no edge of the relationship to a node
\* of the endpoint label.
C12_ReplaceNotAtomic ==
    (/\ last.op = "replace"
     /\ last.result \notin {"ok", "running", "PreActionCheck"})
    => (/\ last.result \in {"ValueError", "NotImplementedError", "IndexError"}
        /\ last.queries[1] = "write"
        /\ \A n \in EndpointNodes(definition) :
              RelsBetween(edges, definition, last.src, n) = {})

C12_Witness ==
    /\ last.op = "replace" /\ last.result = "ValueError"
    /\ last.queries = <<"write">>
    /\ edges = EmptyBag

\* C17: bulk_connect with a non-empty key list returns having merged an edge to
\* each node of the label whose key is listed, adds and removes no other edge,
\* and keys that match no node do not make it fail, with or without an
\* edge-property class.
C17_BulkConnectAsConnect ==
    [][\A K \in KeySets \ {{}}, l \in Labels, p \in PropMaps :
          (/\ bulk_connect("a", K, l, p)
           /\ definition.model \/ p = NoProps)
          => LET nodes == {n \in GraphNodes : l \in node_labels(n) /\ node_uuid(n) \in K}
                 Others(E) == [e \in {x \in DOMAIN E : {x.start, x.end} \cap nodes = {}}
                                  |-> E[e]]
             IN  /\ last'.result = "ok"
                 /\ \A n \in nodes : RelsBetween(edges', definition, "a", n) # {}
                 /\ Others(edges') = Others(edges)
      ]_vars

-----------------------------------------------------------------------------
(* Spec_Frame: the manager of source a on a graph that already holds edges of
   another relationship type and edges of the same type between other nodes *)

OtherEdges == {Edge("a", "b", "LIKES", NoProps), Edge("b", "w", "OWNS", NoProps)}

FrameInit ==
    /\ definition \in Definitions
    /\ edges \in {SetToBag(S) : S \in SUBSET OtherEdges}
    /\ last = NotCalled
    /\ call = Idle
    /\ registry = [t \in RelTypes |-> Unbound]
    /\ rthread = <<>>
    /\ raw_class = [cls |-> "Dog"]
    /\ modules = [m \in ModuleNames |-> [n \in {"Dog"} |-> "Dog"]]

FrameConnect == \E p \in PropMaps : connect("a", "b", p)
FrameBulkConnect == \E K \in {{"w"}, {"b", "w"}} : bulk_connect("a", K, "Dog", NoProps)
FrameDisconnectAll == disconnect_all("a")

NextFrame ==
    \/ FrameConnect
    \/ FrameBulkConnect
    \/ FrameDisconnectAll

Spec_Frame == FrameInit /\ [][NextFrame]_vars

\* the edges of bag E that are of another relationship type than the
\* definition's, or that do not touch node s
EdgesOfOthers(E, d, s) ==
    [e \in {x \in DOMAIN E : x.type # d.relation_type \/ s \notin {x.start, x.end}}
        |-> E[e]]

\* C13: after disconnect_all returns on a persisted source, is_connected is false
\* for every node of the endpoint label, and the edges of other relationship
\* types and of other source nodes are as they were.
C13_DisconnectAllFrame ==
    [][(/\ call = Idle
        /\ last'.op = "disconnect_all"
        /\ last'.result = "ok")
       => (/\ \A n \in EndpointNodes(definition) :
                 ~is_connected(edges', definition, last'.src, n)
           /\ EdgesOfOthers(edges', definition, last'.src)
                 = EdgesOfOthers(edges, definition, last'.src))
      ]_vars

C13_Witness ==
    /\ last.op = "disconnect_all" /\ last.result = "ok"
    /\ BagToSet(edges) = OtherEdges

-----------------------------------------------------------------------------
(* Spec_Returns: what connect, bulk_connect, relationship and all_relationships
   hand back to the caller *)

\* Python's None, and the class of an object that may be None
None == "None"
type_of(obj) == IF obj = None THEN "NoneType" ELSE obj_class(obj)

\* values handed back: None, True, one edge-property instance, a list of them
ReturnsNone == [kind |-> "None"]
ReturnsTrue == [kind |-> "True"]
ReturnsList(items) == [kind |-> "list", items |-> items]
Raises == [kind |-> "raised"]

\* rel_model.inflate(rel): the instance carries the edge's properties
inflate(rel) ==
    [kind |-> "rel", props |-> rel.props,
     start_node_class |-> "unset", end_node_class |-> "unset"]

\* RelationshipManager._set_start_end_cls; source_class is source.__class__
set_start_end_cls(d, s, rel_instance, obj) ==
    IF d.direction = INCOMING
      THEN [rel_instance EXCEPT !.start_node_class = type_of(obj),
                                !.end_node_class = obj_class(s)]
      ELSE [rel_instance EXCEPT !.start_node_class = obj_class(s),
                                !.end_node_class = type_of(obj)]

\* what connect_helper returns after outcome o: True without an edge-property
\* class, else the merged edge inflated, with the classes set from node, which
\* is None when bulk_connect is the caller
connect_helper_returns(d, s, node, properties, o) ==
    IF o.result # "ok" THEN Raises
    ELSE IF ~d.model THEN ReturnsTrue
    ELSE set_start_end_cls(d, s, inflate([props |-> properties]), node)

\* relationship: @check_source, _check_node, MATCH ... RETURN r LIMIT 1
relationship_outcomes(E, d, s, node) ==
    IF ~pre_action_check(s) THEN {<<Outcome("PreActionCheck", <<>>, E), Raises>>}
    ELSE IF ~check_node(d, node) THEN {<<Outcome("ValueError", <<>>, E), Raises>>}
    ELSE LET rels == RelsBetween(E, d, s, node)
         IN  IF rels = {} THEN {<<Outcome("ok", <<"read">>, E), ReturnsNone>>}
             ELSE {<<Outcome("ok", <<"read">>, E),
                     set_start_end_cls(d, s, inflate(r), node)>> : r \in rels}

\* all_relationships with LIMIT 1 in its query
all_relationships_limit_one(E, d, s, node) ==
    IF ~pre_action_check(s) THEN {<<Outcome("PreActionCheck", <<>>, E), Raises>>}
    ELSE IF ~check_node(d, node) THEN {<<Outcome("ValueError", <<>>, E), Raises>>}
    ELSE LET rels == RelsBetween(E, d, s, node)
         IN  IF rels = {} THEN {<<Outcome("ok", <<"read">>, E), ReturnsList(EmptyBag)>>}
             ELSE {<<Outcome("ok", <<"read">>, E),
                     ReturnsList(SetToBag({set_start_end_cls(d, s, inflate(r), node)}))>> :
                        r \in rels}

\* all_relationships: @check_source, _check_node, MATCH ... RETURN r; one
\* instance per returned row, a row per edge
all_relationships_outcomes(E, d, s, node) ==
    IF ~pre_action_check(s) THEN {<<Outcome("PreActionCheck", <<>>, E), Raises>>}
    ELSE IF ~check_node(d, node) THEN {<<Outcome("ValueError", <<>>, E), Raises>>}
    ELSE LET rels == RelsBetween(E, d, s, node)
             rows == [r \in rels |-> E[r]]
             Instance(r) == set_start_end_cls(d, s, inflate(r), node)
         IN  IF rels = {} THEN {<<Outcome("ok", <<"read">>, E), ReturnsList(EmptyBag)>>}
             ELSE {<<Outcome("ok", <<"read">>, E), ReturnsList(BagOfAll(Instance, rows))>>}

\* the end of a call that hands a value back
Return(op, s, args, keys, o, value) ==
    /\ Fits(o.edges)
    /\ edges' = o.edges
    /\ last' = [op |-> op, src |-> s, args |-> args, keys |-> keys,
                result |-> o.result, queries |-> o.queries, returned |-> value]
    /\ call' = Idle
    /\ UNCHANGED <<definition, registry, rthread, raw_class, modules>>

\* connect, with the value of connect_helper
connect_returning(s, node, properties) ==
    /\ call = Idle
    /\ \E o \in connect_outcomes(edges, definition, s, node, properties) :
          Return("connect", s, <<node>>, {}, o,
                 connect_helper_returns(definition, s, node, properties, o))

\* bulk_connect, with the value of connect_helper (None for an empty key list);
\* connect_helper is called without node
bulk_connect_returning(s, nodes, label, properties) ==
    /\ call = Idle
    /\ \E o \in bulk_connect_outcomes(edges, definition, s, nodes, label, properties) :
          Return("bulk_connect", s, <<label>>, nodes, o,
                 IF nodes = {} /\ o.result = "ok" THEN ReturnsNone
                 ELSE connect_helper_returns(definition, s, None, properties, o))

relationship(s, node) ==
    /\ call = Idle
    /\ \E o \in relationship_outcomes(edges, definition, s, node) :
          Return("relationship", s, <<node>>, {}, o[1], o[2])

all_relationships(s, node) ==
    /\ call = Idle
    /\ \E o \in all_relationships_outcomes(edges, definition, s, node) :
          Return("all_relationships", s, <<node>>, {}, o[1], o[2])

ReturnsProps == {NoProps, [since |-> 1, note |-> NoValue]}
ReturnsBulk == {<<{}, "Dog">>, <<{"b"}, "Dog">>, <<{"b", "w"}, "Dog">>,
                <<{"k"}, "Cat">>, <<{"none"}, "Dog">>}

ReturnsConnect == \E n \in Targets, p \in ReturnsProps : connect_returning("a", n, p)
ReturnsBulkConnect ==
    \E c \in ReturnsBulk, p \in ReturnsProps : bulk_connect_returning("a", c[1], c[2], p)
ReturnsRelationship == \E n \in Targets : relationship("a", n)
ReturnsAllRelationships == \E n \in Targets : all_relationships("a", n)

NextReturns ==
    \/ ReturnsConnect
    \/ ReturnsBulkConnect
    \/ ReturnsRelationship
    \/ ReturnsAllRelationships

Spec_Returns == Init /\ [][NextReturns]_vars

\* C14: between a persisted source and a persisted node of the endpoint class
\* with no edge, relationship returns None and all_relationships an empty list,
\* without raising; with edges, all_relationships returns one instance per edge.
C14_ReadsReturn ==
    LET rels == RelsBetween(edges, definition, last.src, Arg(1))
        valid == pre_action_check(last.src) /\ has_id(Arg(1))
                 /\ node_issubclass(obj_class(Arg(1)), definition.node_class)
    IN  /\ (last.op = "relationship" /\ valid /\ rels = {})
            => (last.result = "ok" /\ last.returned = ReturnsNone)
        /\ (last.op = "all_relationships" /\ valid)
            => (/\ last.result = "ok"
                /\ last.returned.kind = "list"
                /\ BagCardinality(last.returned.items)
                      = BagCardinality([r \in rels |-> edges[r]])
                /\ \A i \in BagToSet(last.returned.items) :
                      \E r \in rels : i.props = r.props
                /\ \A r \in rels :
                      \E i \in BagToSet(last.returned.items) : i.props = r.props)

C14_Witness ==
    /\ last.op = "all_relationships" /\ last.result = "ok"
    /\ BagCardinality(last.returned.items) = 2

\* the edge-property instances in a returned value
Instances(value) ==
    CASE value.kind = "rel" -> {value}
      [] value.kind = "list" -> BagToSet(value.items)
      [] OTHER -> {}

\* C18: every instance returned by connect, bulk_connect, relationship or
\* all_relationships has start = the target node's class and end = the source's
\* class for INCOMING, start = the source's class and end = the target node's
\* class for OUTGOING and EITHER, the target class being that of an endpoint node.
C18_StartEndClasses ==
    LET targets == IF last.op = "bulk_connect"
                     THEN bulk_connect_match(last.src, last.keys, Arg(1))
                     ELSE {Arg(1)}
        Carries(i, target) ==
            IF definition.direction = INCOMING
              THEN /\ i.start_node_class = obj_class(target)
                   /\ i.end_node_class = obj_class(last.src)
              ELSE /\ i.start_node_class = obj_class(last.src)
                   /\ i.end_node_class = obj_class(target)
    IN  (/\ last.op \in {"connect", "bulk_connect", "relationship", "all_relationships"}
         /\ last.result = "ok")
        => \A i \in Instances(last.returned) : \E t \in targets : Carries(i, t)

\* C20: every edge of the relationship type at the source joins it to a node that
\* is an instance of the declared endpoint class.
C20_EdgesToEndpointClass ==
    \A e \in BagToSet(edges) :
        e.type = definition.relation_type
        => \A n \in {e.start, e.end} \ {last.src} :
              node_issubclass(obj_class(n), definition.node_class)

-----------------------------------------------------------------------------
(* Spec_Lookup: the endpoint class of a RelationshipDefinition, looked up when a
   manager is built, while module attributes are reassigned *)

Unresolved == "unresolved"

\* _lookup_node_class: _raw_class itself when it is a class; else the attribute
\* named by its last component, in the module named by the components before
\* it, or in the declaring module for a plain name. The modules are loaded.
lookup_node_class(raw, mods) ==
    IF "cls" \in DOMAIN raw THEN raw.cls
    ELSE LET name == raw.name
             module == IF Len(name) = 1 THEN module_name ELSE name[1]
         IN  mods[module][name[Len(name)]]

\* build_manager: _lookup_node_class() on every call, then the manager over
\* the definition's own dict
build_manager(s) ==
    /\ call = Idle
    /\ LET node_class == lookup_node_class(raw_class, modules)
       IN  IF node_class = Undefined
             THEN /\ last' = [op |-> "build_manager", src |-> s, args |-> <<>>,
                              keys |-> {}, result |-> "AttributeError",
                              queries |-> <<>>, returned |-> Raises]
                  /\ UNCHANGED definition
             ELSE /\ definition' = [definition EXCEPT !.node_class = node_class]
                  /\ last' = [op |-> "build_manager", src |-> s, args |-> <<>>,
                              keys |-> {}, result |-> "ok",
                              queries |-> <<>>, returned |-> [kind |-> "manager"]]
    /\ UNCHANGED <<edges, call, registry, rthread, raw_class, modules>>

\* an attribute of a module is assigned another class, or deleted
rebind(module, name, c) ==
    /\ modules' = [modules EXCEPT ![module][name] = c]
    /\ UNCHANGED <<definition, edges, last, call, registry, rthread, raw_class>>

LookupInit ==
    /\ definition \in {[d EXCEPT !.node_class = Unresolved] : d \in Definitions}
    /\ edges = EmptyBag
    /\ last = NotCalled
    /\ call = Idle
    /\ raw_class \in {[cls |-> "Dog"], [name |-> <<"Dog">>], [name |-> <<"kennel", "Dog">>]}
    /\ modules = [m \in ModuleNames |-> [n \in {"Dog"} |-> "Dog"]]
    /\ registry = [t \in RelTypes |-> Unbound]
    /\ rthread = <<>>

BuildManager == build_manager("a")
Rebind == \E m \in ModuleNames, c \in {"Dog", "Cat", Undefined} : rebind(m, "Dog", c)
LookupConnect ==
    /\ definition.node_class \in NodeClasses
    /\ \E n \in {"b", "k"} : connect("a", n, NoProps)

NextLookup ==
    \/ BuildManager
    \/ Rebind
    \/ LookupConnect

Spec_Lookup == LookupInit /\ [][NextLookup]_vars

\* C15: once a manager has been built from a definition, the definition's
\* endpoint class stays the same for every later manager, whatever the name is
\* bound to by then.
C15_EndpointResolvedOnce ==
    [][definition.node_class \in NodeClasses
          => definition'.node_class = definition.node_class]_vars

-----------------------------------------------------------------------------
(* Spec_Interleave: a second manager of the same relationship on the same source
   runs disconnect and disconnect_all, also between the two queries of this
   manager's reconnect; each query is one transaction, nothing locks the graph *)

\* the other manager's disconnect: its query acts on the shared graph
other_disconnect(s, node) ==
    /\ \E o \in disconnect_outcomes(edges, definition, s, node) :
          /\ o.edges # edges
          /\ edges' = o.edges
    /\ UNCHANGED <<definition, last, call, registry, rthread, raw_class, modules>>

\* the other manager's disconnect_all
other_disconnect_all(s) ==
    /\ \E o \in disconnect_all_outcomes(edges, definition, s) :
          /\ o.edges # edges
          /\ edges' = o.edges
    /\ UNCHANGED <<definition, last, call, registry, rthread, raw_class, modules>>

InterleaveConnect == \E p \in ReturnsProps : connect("a", "b", p)
InterleaveBulkConnect == bulk_connect("a", {"w"}, "Dog", NoProps)
InterleaveReconnect == \E o \in {"b", "w"}, n \in {"b", "w"} : reconnect("a", o, n)
OtherDisconnect == \E n \in {"b", "w"} : other_disconnect("a", n)
OtherDisconnectAll == other_disconnect_all("a")

NextInterleave ==
    \/ InterleaveConnect
    \/ InterleaveBulkConnect
    \/ InterleaveReconnect
    \/ reconnect_query
    \/ OtherDisconnect
    \/ OtherDisconnectAll

Spec_Interleave == Init /\ [][NextInterleave]_vars

\* C21: a reconnect(old, new) that returns without error has created the edge to
\* new, also when another manager's disconnect(old) or disconnect_all ran between
\* its read and its write query; when the old edge is gone at the write query,
\* reconnect ends with NotConnected instead of returning normally.
C21_ReconnectUnderInterleaving ==
    [][reconnect_query
       => /\ last'.result = "ok"
                => RelsBetween(edges', definition, call.src, call.other) # {}
          /\ RelsBetween(edges, definition, call.src, call.node) = {}
                => last'.result = "NotConnected"
      ]_vars

-----------------------------------------------------------------------------
(* Spec_Source: the same operations called on the persisted source a, the      *)
(* deleted source x and the unsaved source z                                 *)

MutationOps == {"connect", "bulk_connect", "bulk_disconnect", "disconnect",
                "disconnect_all", "replace", "reconnect"}

SourceConnect == \E s \in Sources, p \in {NoProps} : connect(s, "b", p)
SourceBulkDisconnect == \E s \in Sources, K \in {{}, {"b"}} : bulk_disconnect(s, K)
SourceBulkConnect ==
    \E s \in Sources, K \in {{}, {"b"}, {"w"}} : bulk_connect(s, K, "Dog", NoProps)
SourceDisconnect == \E s \in Sources : disconnect(s, "b")
SourceDisconnectAll == \E s \in Sources : disconnect_all(s)
SourceReplace == \E s \in Sources : replace(s, "b", NoProps)
SourceReconnect == \E s \in Sources, o \in {"b", "w"}, n \in {"b", "w"} : reconnect(s, o, n)

NextSource ==
    \/ SourceConnect
    \/ SourceBulkDisconnect
    \/ SourceBulkConnect
    \/ SourceDisconnect
    \/ SourceDisconnectAll
    \/ SourceReplace
    \/ replace_connect
    \/ SourceReconnect
    \/ reconnect_query

Spec_Source == Init /\ [][NextSource]_vars

\* C6: every mutation operation called on a source that is not persisted or is
\* deleted fails in the source check, before any query.
C6_SourceChecked ==
    (last.op \in MutationOps /\ ~pre_action_check(last.src))
        => (last.result = "PreActionCheck" /\ last.queries = <<>>)

-----------------------------------------------------------------------------
(* The edge-class registry: RelationshipDefinition.__init__ *)

StructuredRel == "StructuredRel"
\* RelA and RelB subclass StructuredRel; RelA1 subclasses RelA, RelB1 subclasses RelB
RelClasses == {"RelA", "RelA1", "RelB", "RelB1"}
NoModel == "None"

\* model.__bases__
rel_bases(c) ==
    CASE c = "RelA1" -> {"RelA"}
      [] c = "RelB1" -> {"RelB"}
      [] OTHER       -> {StructuredRel}

\* issubclass(c, d) for edge-property classes (the hierarchy is three levels deep)
rel_issubclass(c, d) ==
    \/ c = d
    \/ d \in rel_bases(c)
    \/ \E k \in rel_bases(c) : k # StructuredRel /\ d \in rel_bases(k)

is_direct_subclass(obj, classinfo) == \E base \in rel_bases(obj) : base = classinfo

\* the registration raising for every class that is not a subclass of the binding
register_parent_redefined(model_from_registry, model) ==
    IF model_from_registry = Unbound
      THEN [raises |-> FALSE, writes |-> TRUE]
    ELSE IF ~rel_issubclass(model, model_from_registry)
      THEN [raises |-> is_direct_subclass(model, StructuredRel), writes |-> FALSE]
    ELSE [raises |-> FALSE, writes |-> TRUE]

\* the registration binding the label to a parent of the class bound to it
register_rebinds_parent(model_from_registry, model) ==
    IF model_from_registry = Unbound
      THEN [raises |-> FALSE, writes |-> TRUE]
    ELSE IF ~rel_issubclass(model, model_from_registry)
      THEN [raises |-> /\ is_direct_subclass(model, StructuredRel)
                       /\ ~rel_issubclass(model_from_registry, model),
            writes |-> rel_issubclass(model_from_registry, model)]
    ELSE [raises |-> FALSE, writes |-> TRUE]

\* the registration of model given the binding the lookup returned:
\* whether it raises RelationshipClassRedefined, whether it writes the binding
register(model_from_registry, model) ==
    IF model_from_registry = Unbound
      THEN [raises |-> FALSE, writes |-> TRUE]
    ELSE IF ~rel_issubclass(model, model_from_registry)
      THEN [raises |-> /\ is_direct_subclass(model, StructuredRel)
                       /\ ~rel_issubclass(model_from_registry, model),
            writes |-> FALSE]
    ELSE [raises |-> FALSE, writes |-> TRUE]

NotStarted == [pc |-> "idle", relation_type |-> "OWNS", model |-> NoModel,
               seen |-> Unbound, result |-> "ok", count |-> 0]

\* the lookup db._NODE_CLASS_REGISTRY[label_set] of one construction
lookup(t, relation_type, model) ==
    /\ rthread[t].pc # "looked"
    /\ rthread[t].count < MaxConstructs
    /\ rthread' = [rthread EXCEPT ![t] =
          [pc |-> IF model = NoModel THEN "done" ELSE "looked",
           relation_type |-> relation_type, model |-> model,
           seen |-> IF model = NoModel THEN Unbound ELSE registry[relation_type],
           result |-> IF model = NoModel THEN "ok" ELSE "running",
           count |-> @.count + 1]]
    /\ UNCHANGED <<definition, edges, last, call, registry, raw_class, modules>>

\* the rest of the construction, decided on the binding the lookup returned
decide(t) ==
    /\ rthread[t].pc = "looked"
    /\ LET r == register(rthread[t].seen, rthread[t].model)
       IN  /\ rthread' = [rthread EXCEPT ![t].pc = "done",
                             ![t].result = IF r.raises THEN "RelationshipClassRedefined"
                                                       ELSE "ok"]
           /\ registry' = IF r.writes
                            THEN [registry EXCEPT ![rthread[t].relation_type] = rthread[t].model]
                            ELSE registry
    /\ UNCHANGED <<definition, edges, last, call, raw_class, modules>>

\* RelationshipDefinition.__init__ run without interruption
construct(t, relation_type, model) ==
    /\ rthread[t].pc # "looked"
    /\ LET seen == IF model = NoModel THEN Unbound ELSE registry[relation_type]
           r == register(seen, model)
       IN  /\ rthread' = [rthread EXCEPT ![t] =
                  [pc |-> "done", relation_type |-> relation_type, model |-> model,
                   seen |-> seen,
                   result |-> IF model # NoModel /\ r.raises
                                THEN "RelationshipClassRedefined" ELSE "ok",
                   count |-> 0]]
           /\ registry' = IF model # NoModel /\ r.writes
                            THEN [registry EXCEPT ![relation_type] = model]
                            ELSE registry
    /\ UNCHANGED <<definition, edges, last, call, raw_class, modules>>

RegistryInit(threads) ==
    /\ definition = [relation_type |-> "OWNS", direction |-> OUTGOING,
                     model |-> TRUE, node_class |-> "Dog"]
    /\ edges = EmptyBag
    /\ last = NotCalled
    /\ call = Idle
    /\ registry = [t \in RelTypes |-> Unbound]
    /\ rthread = [t \in threads |-> NotStarted]
    /\ LookupIdle

\* Spec_Registry: definitions constructed one after another
Construct == \E ty \in RelTypes, m \in RelClasses \cup {NoModel} : construct(1, ty, m)
Spec_Registry == RegistryInit({1}) /\ [][Construct]_vars

\* Spec_RegistryThreads: two threads constructing definitions; a thread may be
\* preempted between the lookup and what follows it
Lookup == \E t \in DOMAIN rthread, ty \in RelTypes, m \in RelClasses \cup {NoModel} :
              lookup(t, ty, m)
Decide == \E t \in DOMAIN rthread : decide(t)
Spec_RegistryThreads == RegistryInit({1, 2}) /\ [][Lookup \/ Decide]_vars

Unrelated(c, d) == ~rel_issubclass(c, d) /\ ~rel_issubclass(d, c)

\* C7: with the label bound to class C, constructing a definition with a class
\* unrelated to C fails with RelationshipClassRedefined, whatever its depth below
\* StructuredRel; constructing with a subclass of C succeeds and rebinds the label.
C7_UnrelatedClassRedefined ==
    \A t \in DOMAIN rthread :
        (rthread[t].pc = "done" /\ rthread[t].model # NoModel /\ rthread[t].seen # Unbound)
        => /\ Unrelated(rthread[t].model, rthread[t].seen)
                => rthread[t].result = "RelationshipClassRedefined"
           /\ rel_issubclass(rthread[t].model, rthread[t].seen)
                => /\ rthread[t].result = "ok"
                   /\ registry[rthread[t].relation_type] = rthread[t].model

\* C8: two constructions with mutually unrelated classes for one unbound label do
\* not both succeed, however their steps interleave.
C8_FirstRegistrationSerialized ==
    \A t1, t2 \in DOMAIN rthread :
        (/\ t1 # t2
         /\ rthread[t1].pc = "done" /\ rthread[t2].pc = "done"
         /\ rthread[t1].model # NoModel /\ rthread[t2].model # NoModel
         /\ rthread[t1].relation_type = rthread[t2].relation_type
         /\ rthread[t1].seen = Unbound /\ rthread[t2].seen = Unbound
         /\ Unrelated(rthread[t1].model, rthread[t2].model))
        => ~(rthread[t1].result = "ok" /\ rthread[t2].result = "ok")

\* the construction of thread t has ended, with a class that is a direct subclass
\* of StructuredRel and a strict ancestor of the class the label was bound to
ParentOfBinding(t) ==
    /\ rthread[t].pc = "done"
    /\ rthread[t].model # NoModel /\ rthread[t].seen # Unbound
    /\ rthread[t].model # rthread[t].seen
    /\ rel_issubclass(rthread[t].seen, rthread[t].model)
    /\ is_direct_subclass(rthread[t].model, StructuredRel)

\* C16 as stated: with the label bound to D, a strict descendant of M, and M a
\* direct subclass of StructuredRel, constructing a definition with M fails with
\* RelationshipClassRedefined and the binding stays D.
C16_ParentRedefined ==
    \A t \in DOMAIN rthread :
        ParentOfBinding(t)
        => /\ rthread[t].result = "RelationshipClassRedefined"
           /\ registry[rthread[t].relation_type] = rthread[t].seen

\* C16 amended: with the label bound to D, a strict descendant of M, and M a
\* direct subclass of StructuredRel, constructing a definition with M returns
\* without error and the binding stays D.
C16_ParentTolerated ==
    \A t \in DOMAIN rthread :
        ParentOfBinding(t)
        => /\ rthread[t].result = "ok"
           /\ registry[rthread[t].relation_type] = rthread[t].seen

C16_Witness ==
    /\ ParentOfBinding(1)
    /\ rthread[1].model = "RelA" /\ rthread[1].seen = "RelA1"
    /\ registry[rthread[1].relation_type] = "RelA1"

\* C19: over any sequence of constructions a label's binding is never removed
\* and changes only to a subclass of the class it was bound to; a construction
\* that raises RelationshipClassRedefined, one without a model, and one with an
\* ancestor of the binding leave the registry as it was.
C19_BindingOnlyDescends ==
    [][/\ \A ty \in RelTypes :
             registry[ty] # Unbound
             => /\ registry'[ty] # Unbound
                /\ rel_issubclass(registry'[ty], registry[ty])
       /\ \A t \in DOMAIN rthread :
             (/\ rthread'[t] # rthread[t]
              /\ \/ rthread'[t].result = "RelationshipClassRedefined"
                 \/ rthread'[t].model = NoModel
                 \/ /\ rthread'[t].seen # Unbound
                    /\ rthread'[t].model # rthread'[t].seen
                    /\ rel_issubclass(rthread'[t].seen, rthread'[t].model))
             => registry' = registry
      ]_vars

C19_Witness ==
    /\ rthread[1].pc = "done"
    /\ rthread[1].seen = "RelA" /\ rthread[1].model = "RelA1"
    /\ registry[rthread[1].relation_type] = "RelA1"
    /\ \E ty \in RelTypes : ty # rthread[1].relation_type /\ registry[ty] # Unbound

====
